---- MODULE Spec2Model ----
(***************************************************************************)
(* Trends Box: the client-side generation pipeline of src/App.tsx          *)
(* (fetchUsage, fetchHistory, handleGenerate, saveToHistory) over the      *)
(* Supabase history and usage tables, the reliability lookup               *)
(* getReliabilityScore, and the serverless generate handler of             *)
(* netlify/functions/generate.ts with its local proxy variant of           *)
(* server.ts.                                                              *)
(***************************************************************************)
EXTENDS Integers, Sequences, FiniteSets, TLC

(* ---------------------------------------------------------------------- *)
(* Program constants and model bounds                                     *)
(* ---------------------------------------------------------------------- *)

DAILY_LIMIT == 20

\* handleGenerate invocations explored, over all sessions together
MaxInvocations == 2
\* results a search reply holds at most (the handlers ask for 3 to 5)
MaxResults == 2
\* length of the generated source names
MaxNameLen == 2
\* entries data.sources of a reply holds at most
MaxSources == 2
\* history rows posted to the sqlite server
MaxPosts == 2

\* two browser sessions (tabs, devices) of the signed-in user
Sessions == {1, 2}
\* the calendar day of new Date().toISOString().split('T')[0]
Days == {0}
Users == {"A", "B"}

\* every modelled session is signed in as the same user
SessionUser(s) == "A"

\* counts the usage row of (user, day 0) can hold when the app is mounted; a day
\* without generations has no row (the upsert never writes a count below 1)
InitCounts == {0, DAILY_LIMIT - 1, DAILY_LIMIT}

Undefined == "undefined"
NoRow == -1

QuotaAlert == "Daily generation limit reached. Please try again tomorrow."
FailAlert == "Failed to generate content. Please try again."
NoAlert == ""

(* ---------------------------------------------------------------------- *)
(* Client pipeline: pure helpers                                          *)
(* ---------------------------------------------------------------------- *)

\* response.text of the completion call, as handleGenerate can receive it
ClientTexts == {Undefined, "not json", "null", "{}", "{title,excerpt,content,sources}"}

\* JSON.parse(response.text || '{}')
ClientParse(text) ==
  CASE text = "not json" -> [ok |-> FALSE, isNull |-> FALSE, title |-> Undefined]
    [] text = "null" -> [ok |-> TRUE, isNull |-> TRUE, title |-> Undefined]
    [] text = "{title,excerpt,content,sources}" ->
         [ok |-> TRUE, isNull |-> FALSE, title |-> "Title"]
    [] OTHER -> [ok |-> TRUE, isNull |-> FALSE, title |-> Undefined]

\* the image call's outcomes: it throws, replies without inlineData, or with it
ImageOutcomes == {"throw", "nodata", "data"}

\* a URL string, as the pieces of the template literal that builds it; '' is NoUrl
NoUrl == <<"", "", "">>

\* `data:image/png;base64,${part.inlineData.data}`
DataUrl == <<"data:image/png;base64,", "DATA", "">>

\* let imageUrl = ''; ... if (part.inlineData) imageUrl = `data:...`
ClientImageUrl(outcome) == IF outcome = "data" THEN DataUrl ELSE NoUrl

NullRecord == [id |-> 0, title |-> Undefined, imageUrl |-> NoUrl]

\* Math.random().toString(36).substr(2, 9): an id no other invocation draws
RandomId(s, n) == (s - 1) * MaxInvocations + n

\* const newRecord: GenerationRecord = { id, title: data.title, ..., imageUrl }
NewRecord(id, data, imageUrl) == [id |-> id, title |-> data.title, imageUrl |-> imageUrl]

\* the quota check with an off-by-one comparison
QuotaReachedOffByOne(count) == count > DAILY_LIMIT

\* if (usageCount >= DAILY_LIMIT)
QuotaReached(count) == count >= DAILY_LIMIT

\* the count column of a usage row, 0 when there is no row
CountOf(row) == IF row = NoRow THEN 0 ELSE row

RowIds(rows) == {rows[i].id : i \in 1..Len(rows)}

\* the null of a table column
Null == "null"

\* .insert({ id: record.id, user_id, title: record.title, ..., image_url })
InsertRow(record, user) ==
  [id |-> record.id, user_id |-> user,
   title |-> IF record.title = Undefined THEN Null ELSE record.title,
   image_url |-> record.imageUrl]

(* ---------------------------------------------------------------------- *)
(* Generate handler: pure helpers                                         *)
(* ---------------------------------------------------------------------- *)

\* the deployed function (netlify/functions/generate.ts) and the local proxy (server.ts)
Variants == {"netlify", "server"}

\* the prompts handleGenerate-style clients build: without guidance, with guidance,
\* with guidance that itself speaks of the latest news; or a body without prompt
LatestPrompt == "Find the latest news in Sports from popular Nigerian sources and generate a blog post."
GuidedPrompt == "Generate a blog post about: fuel prices. Category: General."
GuidedLatestPrompt == "Generate a blog post about: the Latest News on fuel. Category: General."
Prompts == {Undefined, LatestPrompt, GuidedPrompt, GuidedLatestPrompt}

\* prompt.toLowerCase().includes("find the latest news") || ...includes("latest news")
MentionsLatestNews(prompt) == prompt \in {LatestPrompt, GuidedLatestPrompt}

\* the url of a search result: one URL() can parse, one it throws on
GoodUrl == "https://www.punchng.com/story"
BadUrl == "not a url"
Urls == {GoodUrl, BadUrl}

\* new URL(r.url) throws a TypeError on a string that is no absolute URL
UrlParses(url) == url = GoodUrl

\* url.hostname.replace('www.', '').split('.')[0], looked up in platformMap
Platform(url) == IF url = GoodUrl THEN "The Punch" ELSE ""

\* searchResult.results of a reply: up to MaxResults results, known by their urls
ResultLists == UNION {[1..n -> Urls] : n \in 0..MaxResults}

\* tvly.search(...) throws, replies without a results array, or with results
SearchOutcomes ==
  {[kind |-> "throw", results |-> <<>>], [kind |-> "malformed", results |-> <<>>]}
  \cup {[kind |-> "results", results |-> r] : r \in ResultLists}

NoSearch == [kind |-> "none", results |-> <<>>]

ResultTitle(i) == i

\* context: does it start with the date line, and the results it quotes
EmptyContext == [dated |-> FALSE, quoted |-> 0]

\* context ? `Context: ...` : prompt    (a string is truthy unless empty)
ContextTruthy(c) == c.dated \/ c.quoted > 0

\* the context string built from the results
BuildContext(variant, results) ==
  [dated |-> variant = "netlify", quoted |-> Len(results)]

\* sources = searchResult.results.map(...)
MapSources(variant, results) ==
  IF variant = "netlify"
  THEN [i \in 1..Len(results) |->
          [id |-> i - 1, name |-> ResultTitle(i), platform |-> Platform(results[i]),
           url |-> results[i]]]
  ELSE [i \in 1..Len(results) |->
          [id |-> -1, name |-> ResultTitle(i), platform |-> "", url |-> results[i]]]

\* does the mapping of the results to sources throw?
MapThrows(variant, results) ==
  variant = "netlify" /\ \E i \in 1..Len(results) : ~UrlParses(results[i])

\* context and sources after the try block around the search
AfterSearch(variant, outcome) ==
  IF outcome.kind # "results"
  THEN [context |-> EmptyContext, sources |-> <<>>]
  ELSE [context |-> BuildContext(variant, outcome.results),
        sources |-> IF MapThrows(variant, outcome.results) THEN <<>>
                    ELSE MapSources(variant, outcome.results)]

\* titles a reply can carry
Titles == {Undefined, "", "MTN Bids $6.2B"}

\* relevantSourceIds of a reply: absent, not an array, or an array of numbers
SourceIds ==
  {[kind |-> "absent", ids |-> {}], [kind |-> "notArray", ids |-> {}]}
  \cup {[kind |-> "array", ids |-> S] : S \in SUBSET (0..MaxResults)}

ModelSources == <<[id |-> -1, name |-> "Model Source", platform |-> "", url |-> GoodUrl]>>

\* completion.choices[0].message.content: the call throws, the content is null,
\* or it is text: no JSON, the JSON null, or a JSON object
Replies ==
  {[kind |-> k, title |-> Undefined, relevantSourceIds |-> [kind |-> "absent", ids |-> {}],
    hasSources |-> FALSE] : k \in {"throw", "nocontent", "garbage", "null"}}
  \cup [kind : {"object"}, title : Titles, relevantSourceIds : SourceIds,
        hasSources : BOOLEAN]

NoCompletion == [kind |-> "none", title |-> Undefined,
                 relevantSourceIds |-> [kind |-> "absent", ids |-> {}],
                 hasSources |-> FALSE]

\* JSON.parse(content || '{}'): throws a SyntaxError on text that is no JSON
ParseThrows(r) == r.kind = "garbage"

\* the parsed value is null: reading a property of it throws a TypeError
ParsedNull(r) == r.kind = "null"

\* the keys of the parsed object
DataKeys(r) ==
  IF r.kind # "object" THEN {}
  ELSE {"excerpt", "content"}
       \cup (IF r.title # Undefined THEN {"title"} ELSE {})
       \cup (IF r.relevantSourceIds.kind # "absent" THEN {"relevantSourceIds"} ELSE {})
       \cup (IF r.hasSources THEN {"sources"} ELSE {})

\* data.relevantSourceIds && Array.isArray(data.relevantSourceIds)
HasSourceIdArray(r) == r.relevantSourceIds.kind = "array"

\* sources.filter(s => data.relevantSourceIds.includes(s.id))
FilterRelevant(srcs, r) ==
  LET cited(src) == src.id \in r.relevantSourceIds.ids
  IN SelectSeq(srcs, cited)

\* generate.ts lines 110-118: filteredSources
Reconcile(srcs, r) ==
  LET filtered == IF HasSourceIdArray(r) THEN FilterRelevant(srcs, r) ELSE srcs
  IN IF Len(filtered) = 0 /\ Len(srcs) > 0 THEN <<srcs[1]>> ELSE filtered

\* the sources of the response body
ResponseSources(variant, srcs, r) ==
  IF variant = "netlify" THEN Reconcile(srcs, r)
  ELSE IF Len(srcs) > 0 THEN srcs
       ELSE IF r.hasSources THEN ModelSources ELSE <<>>

\* encodeURIComponent(data.title || 'news')
EncodedSeed(title) ==
  IF title \in {Undefined, ""} THEN "news"
  ELSE IF title = "MTN Bids $6.2B" THEN "MTN%20Bids%20%246.2B"
  ELSE title

\* `https://picsum.photos/seed/${...}/1200/630`
PlaceholderUrl(title) == <<"https://picsum.photos/seed/", EncodedSeed(title), "/1200/630">>

\* imageUrl after the try block around the image call
HandlerImageUrl(title, outcome) ==
  IF outcome = "data" THEN DataUrl ELSE PlaceholderUrl(title)

NoResponse == [statusCode |-> 0, keys |-> {}, title |-> Undefined, sources |-> <<>>,
               imageUrl |-> NoUrl]

\* { statusCode: 405, body: "Method Not Allowed" }
MethodNotAllowed == [NoResponse EXCEPT !.statusCode = 405]

\* { statusCode: 500, body: JSON.stringify({ error: ... }) }
ErrorResponse == [NoResponse EXCEPT !.statusCode = 500, !.keys = {"error"}]

\* { statusCode: 200, body: JSON.stringify({ ...data, sources, imageUrl }) }
OkResponse(variant, srcs, r, url) ==
  [statusCode |-> 200,
   keys |-> DataKeys(r) \cup {"sources", "imageUrl"},
   title |-> r.title,
   sources |-> ResponseSources(variant, srcs, r),
   imageUrl |-> url]

NoHandlerCalls == [search |-> 0, completion |-> 0, image |-> 0]
NoRequest == [variant |-> "netlify", method |-> "", prompt |-> Undefined,
              groqKey |-> FALSE, tavilyKey |-> FALSE, geminiKey |-> FALSE]

(* ---------------------------------------------------------------------- *)
(* Reliability lookup: pure helpers                                       *)
(* ---------------------------------------------------------------------- *)

RELIABILITY_SCORES ==
  << [name |-> "Premium Times", score |-> 95],
     [name |-> "The Cable", score |-> 92],
     [name |-> "Channels TV", score |-> 94],
     [name |-> "Punch", score |-> 88],
     [name |-> "Daily Trust", score |-> 87],
     [name |-> "Guardian Nigeria", score |-> 90],
     [name |-> "Arise News", score |-> 91],
     [name |-> "Vanguard", score |-> 85],
     [name |-> "Sahara Reporters", score |-> 80],
     [name |-> "BellaNaija", score |-> 85] >>

UpperCase == "ABCDEFGHIJKLMNOPQRSTUVWXYZ"
LowerCase == "abcdefghijklmnopqrstuvwxyz"

\* one character of String.prototype.toLowerCase()
LowerChar(c) ==
  IF \E i \in 1..Len(UpperCase) : SubSeq(UpperCase, i, i) = c
  THEN LET i == CHOOSE j \in 1..Len(UpperCase) : SubSeq(UpperCase, j, j) = c
       IN SubSeq(LowerCase, i, i)
  ELSE c

\* String.prototype.toLowerCase()
RECURSIVE ToLowerCase(_)
ToLowerCase(str) ==
  IF str = "" THEN ""
  ELSE LowerChar(SubSeq(str, 1, 1)) \o ToLowerCase(SubSeq(str, 2, Len(str)))

\* String.prototype.includes(): needle occurs in hay as a substring
Includes(hay, needle) ==
  \E i \in 1..(Len(hay) - Len(needle) + 1) : SubSeq(hay, i, i + Len(needle) - 1) = needle

\* the predicate of RELIABILITY_SCORES.find(...)
Matches(name, s) ==
  \/ Includes(ToLowerCase(name), ToLowerCase(s.name))
  \/ Includes(ToLowerCase(s.name), ToLowerCase(name))

\* RELIABILITY_SCORES.find(...): the first entry that matches, in table order
getReliabilityScore(name) ==
  LET found == {i \in 1..Len(RELIABILITY_SCORES) : Matches(name, RELIABILITY_SCORES[i])}
  IN IF found = {} THEN 70
     ELSE RELIABILITY_SCORES[CHOOSE i \in found : \A j \in found : i <= j].score

NoScore == -1

\* characters the generated source names are made of
NameAlphabet == {"P", "u", "n", "c", "h", "E", "x", " "}

RECURSIVE NamesOfLen(_)
NamesOfLen(n) ==
  IF n = 0 THEN {""}
  ELSE {str \o c : str \in NamesOfLen(n - 1), c \in NameAlphabet}

\* source names a reply can carry: outlet names as written in articles, names of
\* no outlet, and every short name over NameAlphabet
SourceNames ==
  {"Premium Times Nigeria", "Random Blog", "PUNCH", "The Punch", "Vanguard News",
   "Punch and Vanguard", "The Cable | Premium Times", "Nigeria", "Times", "BBC"}
  \cup UNION {NamesOfLen(n) : n \in 0..MaxNameLen}

\* an entry of data.sources: { name, url }, the name possibly missing
SourceEntries == [name : {Undefined, "Punch", "Random Blog"}]

\* data.sources of a reply: missing, or an array of entries
NoDataSources == [kind |-> "absent", entries |-> <<>>]
DataSourceLists ==
  {NoDataSources}
  \cup {[kind |-> "array", entries |-> e] :
          e \in UNION {[1..n -> SourceEntries] : n \in 0..MaxSources}}

NoEnriched == [kind |-> "none", sources |-> <<>>]

\* (data.sources || []).map(s => ({ ...s, reliabilityScore: getReliabilityScore(s.name) }))
\* sourceName.toLowerCase() throws a TypeError on an entry without name
EnrichSources(srcs) ==
  IF \E i \in 1..Len(srcs.entries) : srcs.entries[i].name = Undefined
  THEN [kind |-> "throw", sources |-> <<>>]
  ELSE [kind |-> "ok",
        sources |-> [i \in 1..Len(srcs.entries) |->
                       [name |-> srcs.entries[i].name,
                        reliabilityScore |-> getReliabilityScore(srcs.entries[i].name)]]]

(* ---------------------------------------------------------------------- *)
(* State                                                                  *)
(* ---------------------------------------------------------------------- *)

VARIABLES
  today,               \* the calendar day new Date() falls in
  dbHistory,           \* history table: rows in the order of their created_at
  dbUsage,             \* usage table: count of the row (user_id, date), or NoRow
  pc,                  \* per session: the await handleGenerate is suspended at
  usageCount,          \* useState(0)
  loading,             \* useState(false)
  result,              \* useState(null)
  history,             \* useState([])
  selectedHistoryItem, \* useState(null)
  alertShown,          \* the alert() of the session's last handleGenerate, if any
  invoked,             \* handleGenerate invocations so far
  closureUsage,        \* usageCount as captured by the running handleGenerate
  reply,               \* what the completion call of the last invocation gave
  newRecord,           \* the record under construction
  upsertReq,           \* the usage upsert in flight: its date and count
  fetchUsagePending,   \* fetchUsage() of the mount effect has not returned
  calls,               \* external calls issued by the running handleGenerate
  generated,           \* history rows inserted for (user, day)
  completed,           \* generations whose insert and usage upsert both succeeded
  hpc,                 \* the generate handler: the await it is suspended at
  request,             \* its request and environment: method, prompt, API keys
  searchResult,        \* what tvly.search gave
  context,             \* let context = ""
  sources,             \* let sources = []
  completion,          \* what groq.chat.completions.create gave
  imgModel,            \* what the image call gave
  response,            \* what the handler returned
  hcalls,              \* external calls the handler issued for this request
  fetchHistoryPending, \* fetchHistory() of the mount effect has not returned
  sourceName,          \* getReliabilityScore: its argument
  score,               \* getReliabilityScore: what the call gave
  dataSources,         \* data.sources of a parsed reply
  enrichedSources,     \* what (data.sources || []).map(...) gave
  progress,            \* useState(0)
  timer,               \* the setInterval of the running handleGenerate is active
  deleting,            \* per session: the deleteHistory call in flight and its closure
  sqlHistory,          \* history table of the sqlite server
  sqlUsage,            \* usage table of the sqlite server: count of today's row, or NoRow
  apiReply             \* what the sqlite server answered last, and to whom

clientVars == <<pc, usageCount, loading, result, history, selectedHistoryItem,
                alertShown, invoked, closureUsage, reply, newRecord, upsertReq,
                fetchUsagePending, calls>>
storeVars == <<today, dbHistory, dbUsage, generated, completed>>
handlerVars == <<hpc, request, searchResult, context, sources, completion, imgModel,
                 response, hcalls>>
historyVars == <<fetchHistoryPending>>
scoreVars == <<sourceName, score, dataSources, enrichedSources>>
viewVars == <<progress, timer, deleting>>
legacyVars == <<sqlHistory, sqlUsage, apiReply>>
vars == <<clientVars, storeVars, handlerVars, historyVars, scoreVars, viewVars,
          legacyVars>>

NoReply == "none"
NoUpsert == [date |-> 0, count |-> 0]
NoCalls == [llm |-> 0, image |-> 0, insert |-> 0, upsert |-> 0]
NoDelete == [active |-> FALSE, id |-> 0, selectedHistoryItem |-> NullRecord,
             outcome |-> "none"]
NoApiReply == [to |-> "", kind |-> "none", rows |-> <<>>, count |-> 0]

\* the app as mounted, the handler idle
InitApp ==
  /\ today = 0
  /\ dbHistory = <<>>
  /\ \E c \in InitCounts :
       /\ dbUsage \in {[u \in Users, d \in Days |->
                          IF u = "A" /\ d = 0 THEN r ELSE NoRow] :
                       r \in IF c = 0 THEN {NoRow} ELSE {c}}
       /\ generated = [u \in Users, d \in Days |-> IF u = "A" /\ d = 0 THEN c ELSE 0]
       /\ completed = [u \in Users, d \in Days |-> IF u = "A" /\ d = 0 THEN c ELSE 0]
  /\ pc = [s \in Sessions |-> "idle"]
  /\ usageCount = [s \in Sessions |-> 0]
  /\ loading = [s \in Sessions |-> FALSE]
  /\ result = [s \in Sessions |-> NullRecord]
  /\ history = [s \in Sessions |-> <<>>]
  /\ selectedHistoryItem = [s \in Sessions |-> NullRecord]
  /\ alertShown = [s \in Sessions |-> NoAlert]
  /\ invoked = [s \in Sessions |-> 0]
  /\ closureUsage = [s \in Sessions |-> 0]
  /\ reply = [s \in Sessions |-> NoReply]
  /\ newRecord = [s \in Sessions |-> NullRecord]
  /\ upsertReq = [s \in Sessions |-> NoUpsert]
  /\ fetchUsagePending = [s \in Sessions |-> TRUE]
  /\ calls = [s \in Sessions |-> NoCalls]
  /\ hpc = "idle"
  /\ request = NoRequest
  /\ searchResult = NoSearch
  /\ context = EmptyContext
  /\ sources = <<>>
  /\ completion = NoCompletion
  /\ imgModel = "none"
  /\ response = NoResponse
  /\ hcalls = NoHandlerCalls
  /\ fetchHistoryPending = [s \in Sessions |-> TRUE]
  /\ progress = [s \in Sessions |-> 0]
  /\ timer = [s \in Sessions |-> FALSE]
  /\ deleting = [s \in Sessions |-> NoDelete]
  /\ sqlHistory = <<>>
  /\ sqlUsage = NoRow
  /\ apiReply = NoApiReply

\* no reliability lookup under way
NoLookup ==
  /\ sourceName = ""
  /\ score = NoScore
  /\ dataSources = NoDataSources
  /\ enrichedSources = NoEnriched

Init == InitApp /\ NoLookup

(* ---------------------------------------------------------------------- *)
(* Mount effect: fetchUsage                                               *)
(* ---------------------------------------------------------------------- *)

FetchUsageReturn(s) ==
  /\ fetchUsagePending[s]
  /\ fetchUsagePending' = [fetchUsagePending EXCEPT ![s] = FALSE]
  /\ \E outcome \in {"nosession", "error", "ok"} :
       usageCount' = IF outcome = "ok"
                     THEN [usageCount EXCEPT ![s] = CountOf(dbUsage[SessionUser(s), today])]
                     ELSE usageCount
  /\ UNCHANGED <<pc, loading, result, history, selectedHistoryItem, alertShown,
                 invoked, closureUsage, reply, newRecord, upsertReq, calls, storeVars, handlerVars>>
  /\ UNCHANGED <<historyVars, scoreVars, viewVars, legacyVars>>

(* ---------------------------------------------------------------------- *)
(* handleGenerate                                                         *)
(* ---------------------------------------------------------------------- *)

RECURSIVE Sum(_, _)
Sum(f, S) == IF S = {} THEN 0
             ELSE LET x == CHOOSE y \in S : TRUE IN f[x] + Sum(f, S \ {x})

\* handleGenerate invocations of all sessions so far
Invocations == Sum(invoked, Sessions)

\* the button is disabled while loading; the quota check; the completion call
HandleGenerate(s) ==
  /\ pc[s] = "idle"
  /\ ~loading[s]
  /\ Invocations < MaxInvocations
  /\ invoked' = [invoked EXCEPT ![s] = @ + 1]
  /\ reply' = [reply EXCEPT ![s] = NoReply]
  /\ IF QuotaReached(usageCount[s])
     THEN /\ alertShown' = [alertShown EXCEPT ![s] = QuotaAlert]
          /\ UNCHANGED <<pc, loading, result, closureUsage, calls, progress, timer>>
     ELSE /\ loading' = [loading EXCEPT ![s] = TRUE]
          /\ progress' = [progress EXCEPT ![s] = 0]
          /\ timer' = [timer EXCEPT ![s] = TRUE]
          /\ result' = [result EXCEPT ![s] = NullRecord]
          /\ closureUsage' = [closureUsage EXCEPT ![s] = usageCount[s]]
          /\ calls' = [calls EXCEPT ![s] = [NoCalls EXCEPT !.llm = 1]]
          /\ pc' = [pc EXCEPT ![s] = "completion"]
          /\ alertShown' = [alertShown EXCEPT ![s] = NoAlert]
  /\ UNCHANGED <<usageCount, history, selectedHistoryItem, newRecord, upsertReq,
                 fetchUsagePending, storeVars, handlerVars>>
  /\ UNCHANGED <<historyVars, scoreVars, deleting, legacyVars>>

\* handleGenerate stays suspended at an await: no state setter runs
Suspended(s) ==
  UNCHANGED <<usageCount, loading, result, history, selectedHistoryItem, alertShown,
              closureUsage, progress, timer>>

\* the locals of the invocation go out of scope
Returned(s) ==
  /\ pc' = [pc EXCEPT ![s] = "idle"]
  /\ closureUsage' = [closureUsage EXCEPT ![s] = 0]
  /\ newRecord' = [newRecord EXCEPT ![s] = NullRecord]
  /\ upsertReq' = [upsertReq EXCEPT ![s] = NoUpsert]
  /\ calls' = [calls EXCEPT ![s] = NoCalls]

\* the catch block without the finally block after it
FailedWithoutFinally(s) ==
  /\ alertShown' = [alertShown EXCEPT ![s] = FailAlert]
  /\ Returned(s)
  /\ UNCHANGED <<usageCount, result, history, selectedHistoryItem, progress, timer,
                 loading>>

\* catch (err) { alert(...) } finally { clearInterval(interval); setLoading(false) }
Failed(s) ==
  /\ alertShown' = [alertShown EXCEPT ![s] = FailAlert]
  /\ timer' = [timer EXCEPT ![s] = FALSE]
  /\ loading' = [loading EXCEPT ![s] = FALSE]
  /\ Returned(s)
  /\ UNCHANGED <<usageCount, result, history, selectedHistoryItem, progress>>

\* handleGenerate treating a record that is not in the history table as a failure
FinishedOnlyIfPersisted(s, record) ==
  IF record.id \in RowIds(dbHistory)
  THEN /\ result' = [result EXCEPT ![s] = record]
       /\ selectedHistoryItem' = [selectedHistoryItem EXCEPT ![s] = record]
       /\ progress' = [progress EXCEPT ![s] = 100]
       /\ timer' = [timer EXCEPT ![s] = FALSE]
       /\ history' = [history EXCEPT ![s] = <<record>> \o @]
       /\ usageCount' = [usageCount EXCEPT ![s] = @ + 1]
       /\ loading' = [loading EXCEPT ![s] = FALSE]
       /\ Returned(s)
       /\ reply' = [reply EXCEPT ![s] = NoReply]
       /\ UNCHANGED alertShown
  ELSE /\ Failed(s)
       /\ reply' = [reply EXCEPT ![s] = NoReply]

\* setResult ... setUsageCount(prev => prev + 1), then the finally block
Finished(s, record) ==
  /\ result' = [result EXCEPT ![s] = record]
  /\ selectedHistoryItem' = [selectedHistoryItem EXCEPT ![s] = record]
  /\ progress' = [progress EXCEPT ![s] = 100]
  /\ history' = [history EXCEPT ![s] = <<record>> \o @]
  /\ usageCount' = [usageCount EXCEPT ![s] = @ + 1]
  /\ timer' = [timer EXCEPT ![s] = FALSE]
  /\ loading' = [loading EXCEPT ![s] = FALSE]
  /\ Returned(s)
  /\ reply' = [reply EXCEPT ![s] = NoReply]
  /\ UNCHANGED alertShown

\* handleGenerate with the JSON.parse guarded so that only a thrown call fails
CompletionFailsOnThrowOnly(outcome) == outcome = "throw"

\* does the completion outcome take handleGenerate to its catch block?
\* (a reply parsed to null throws at data.sources, after the image try block)
CompletionFails(outcome) ==
  \/ outcome = "throw"
  \/ ~ClientParse(outcome).ok
  \/ ClientParse(outcome).isNull

\* the completion call returns or throws; JSON.parse; the image call is issued
CompletionReturn(s) ==
  /\ pc[s] = "completion"
  /\ \E outcome \in {"throw"} \cup ClientTexts :
       IF CompletionFails(outcome)
       THEN /\ Failed(s)
            /\ reply' = [reply EXCEPT ![s] = outcome]
       ELSE /\ reply' = [reply EXCEPT ![s] = outcome]
            /\ newRecord' = [newRecord EXCEPT ![s] = NewRecord(0, ClientParse(outcome), NoUrl)]
            /\ calls' = [calls EXCEPT ![s].image = @ + 1]
            /\ pc' = [pc EXCEPT ![s] = "image"]
            /\ Suspended(s)
            /\ UNCHANGED upsertReq
  /\ UNCHANGED <<invoked, fetchUsagePending, storeVars, handlerVars>>
  /\ UNCHANGED <<historyVars, scoreVars, deleting, legacyVars>>

\* the image call returns or throws; newRecord; saveToHistory up to the insert
ImageReturn(s) ==
  /\ pc[s] = "image"
  /\ \E outcome \in ImageOutcomes, session \in BOOLEAN :
       LET record == [newRecord[s] EXCEPT !.id = RandomId(s, invoked[s]),
                                          !.imageUrl = ClientImageUrl(outcome)]
       IN IF session
          THEN /\ newRecord' = [newRecord EXCEPT ![s] = record]
               /\ calls' = [calls EXCEPT ![s].insert = @ + 1]
               /\ pc' = [pc EXCEPT ![s] = "insert"]
               /\ Suspended(s)
               /\ UNCHANGED <<upsertReq, reply>>
          ELSE Finished(s, record)
  /\ UNCHANGED <<invoked, fetchUsagePending, storeVars, handlerVars>>
  /\ UNCHANGED <<historyVars, scoreVars, deleting, legacyVars>>

\* the usage upsert saveToHistory issues: { user_id, date: today, count: usageCount + 1 }
UsageUpsert(s) == [date |-> today, count |-> closureUsage[s] + 1]

\* does the history table take the row? (the request can fail; id is the primary key)
InsertSucceeds(s, outcome) ==
  outcome = "ok" /\ newRecord[s].id \notin RowIds(dbHistory)

\* saveToHistory without the return after a failed insert
SaveNeverReturnsEarly(error) == FALSE

\* if (error) { console.error('Failed to save history', error); return; }
SaveReturnsEarly(error) == error

\* the history insert returns; unless it failed, the usage upsert is issued
InsertReturn(s) ==
  /\ pc[s] = "insert"
  /\ \E outcome \in {"error", "ok"} :
       LET error == ~InsertSucceeds(s, outcome)
       IN /\ IF error
             THEN UNCHANGED <<dbHistory, generated>>
             ELSE /\ dbHistory' = Append(dbHistory,
                                         InsertRow(newRecord[s], SessionUser(s)))
                  /\ generated' = [generated EXCEPT ![SessionUser(s), today] = @ + 1]
          /\ IF SaveReturnsEarly(error)
             THEN Finished(s, newRecord[s])
             ELSE /\ upsertReq' = [upsertReq EXCEPT ![s] = UsageUpsert(s)]
                  /\ calls' = [calls EXCEPT ![s].upsert = @ + 1]
                  /\ pc' = [pc EXCEPT ![s] = "upsert"]
                  /\ Suspended(s)
                  /\ UNCHANGED <<newRecord, reply>>
  /\ UNCHANGED <<invoked, fetchUsagePending, today, dbUsage, completed, handlerVars>>
  /\ UNCHANGED <<historyVars, scoreVars, deleting, legacyVars>>

\* the usage upsert is applied (onConflict: 'user_id,date') or fails
UpsertReturn(s) ==
  /\ pc[s] = "upsert"
  /\ \E outcome \in {"error", "ok"} :
       IF outcome = "ok"
       THEN /\ dbUsage' = [dbUsage EXCEPT ![SessionUser(s), upsertReq[s].date] =
                             upsertReq[s].count]
            /\ completed' = [completed EXCEPT ![SessionUser(s), upsertReq[s].date] = @ + 1]
       ELSE UNCHANGED <<dbUsage, completed>>
  /\ Finished(s, newRecord[s])
  /\ UNCHANGED <<invoked, fetchUsagePending, today, dbHistory, generated,
                 handlerVars>>
  /\ UNCHANGED <<historyVars, scoreVars, deleting, legacyVars>>

Next ==
  \/ \E s \in Sessions : FetchUsageReturn(s)
  \/ \E s \in Sessions : HandleGenerate(s)
  \/ \E s \in Sessions : CompletionReturn(s)
  \/ \E s \in Sessions : ImageReturn(s)
  \/ \E s \in Sessions : InsertReturn(s)
  \/ \E s \in Sessions : UpsertReturn(s)

Spec == Init /\ [][Next]_vars

(* ---------------------------------------------------------------------- *)
(* One session with its history list: mount, fetchHistory, handleGenerate *)
(* ---------------------------------------------------------------------- *)

\* the session whose history list is followed
HistorySessions == {1}

RECURSIVE Reverse(_)
Reverse(seq) == IF seq = <<>> THEN <<>> ELSE Reverse(Tail(seq)) \o <<Head(seq)>>

\* .eq('user_id', ...).order('created_at', { ascending: false })
UserHistory(user) ==
  LET own(row) == row.user_id = user
  IN Reverse(SelectSeq(dbHistory, own))

\* item => ({ id: item.id, title: item.title || '', ..., imageUrl: item.image_url || '' })
FormatRow(item) ==
  [id |-> item.id,
   title |-> IF item.title = Null THEN "" ELSE item.title,
   imageUrl |-> IF item.image_url = Null THEN NoUrl ELSE item.image_url]

\* data.map(item => ...)
FormatHistory(rows) == [i \in 1..Len(rows) |-> FormatRow(rows[i])]

\* the page is loaded again: the component mounts with its initial state and
\* the mount effect calls fetchHistory() and fetchUsage()
Mount(s) ==
  /\ pc[s] = "idle"
  /\ ~deleting[s].active
  /\ invoked[s] > 0
  /\ progress' = [progress EXCEPT ![s] = 0]
  /\ usageCount' = [usageCount EXCEPT ![s] = 0]
  /\ loading' = [loading EXCEPT ![s] = FALSE]
  /\ result' = [result EXCEPT ![s] = NullRecord]
  /\ history' = [history EXCEPT ![s] = <<>>]
  /\ selectedHistoryItem' = [selectedHistoryItem EXCEPT ![s] = NullRecord]
  /\ alertShown' = [alertShown EXCEPT ![s] = NoAlert]
  /\ reply' = [reply EXCEPT ![s] = NoReply]
  /\ fetchUsagePending' = [fetchUsagePending EXCEPT ![s] = TRUE]
  /\ fetchHistoryPending' = [fetchHistoryPending EXCEPT ![s] = TRUE]
  /\ UNCHANGED <<pc, invoked, closureUsage, newRecord, upsertReq, calls, storeVars,
                 handlerVars, scoreVars, timer, deleting, legacyVars>>

\* fetchHistory returns: no session, an error, or the user's rows, newest first
FetchHistoryReturn(s) ==
  /\ fetchHistoryPending[s]
  /\ fetchHistoryPending' = [fetchHistoryPending EXCEPT ![s] = FALSE]
  /\ \E outcome \in {"nosession", "error", "ok"} :
       history' = IF outcome = "ok"
                  THEN [history EXCEPT ![s] = FormatHistory(UserHistory(SessionUser(s)))]
                  ELSE history
  /\ UNCHANGED <<pc, usageCount, loading, result, selectedHistoryItem, alertShown,
                 invoked, closureUsage, reply, newRecord, upsertReq, fetchUsagePending,
                 calls, storeVars, handlerVars, scoreVars, viewVars, legacyVars>>

NextHistory ==
  \/ \E s \in HistorySessions : Mount(s)
  \/ \E s \in HistorySessions : FetchHistoryReturn(s)
  \/ \E s \in HistorySessions : FetchUsageReturn(s)
  \/ \E s \in HistorySessions : HandleGenerate(s)
  \/ \E s \in HistorySessions : CompletionReturn(s)
  \/ \E s \in HistorySessions : ImageReturn(s)
  \/ \E s \in HistorySessions : InsertReturn(s)
  \/ \E s \in HistorySessions : UpsertReturn(s)

SpecHistory == Init /\ [][NextHistory]_vars

(* ---------------------------------------------------------------------- *)
(* Generate handler                                                       *)
(* ---------------------------------------------------------------------- *)

\* the key check asking for the completion key alone
KeysMissingGroqOnly(req) == ~req.groqKey

\* if (!groqKey || !tavilyKey)
KeysMissing(req) == ~req.groqKey \/ ~req.tavilyKey

Respond(resp) ==
  /\ response' = resp
  /\ hpc' = "done"

\* a request arrives: method check, key check, then the search or the completion call
HandlerReceive ==
  /\ hpc = "idle"
  /\ \E req \in [variant : Variants, method : {"POST", "GET"}, prompt : Prompts,
                 groqKey : BOOLEAN, tavilyKey : BOOLEAN, geminiKey : BOOLEAN] :
       \* app.post(...) of the proxy is reached by POST requests only
       /\ req.variant = "server" => req.method = "POST"
       /\ request' = req
       /\ IF req.method # "POST"
          THEN /\ Respond(MethodNotAllowed)
               /\ UNCHANGED hcalls
          ELSE IF KeysMissing(req)
          THEN /\ Respond(ErrorResponse)
               /\ UNCHANGED hcalls
          ELSE IF req.prompt = Undefined
          THEN \* prompt.toLowerCase() on undefined: TypeError, caught by the outer catch
               /\ Respond(ErrorResponse)
               /\ UNCHANGED hcalls
          ELSE IF MentionsLatestNews(req.prompt)
          THEN /\ hpc' = "search"
               /\ hcalls' = [hcalls EXCEPT !.search = @ + 1]
               /\ UNCHANGED response
          ELSE /\ hpc' = "completion"
               /\ hcalls' = [hcalls EXCEPT !.completion = @ + 1]
               /\ UNCHANGED response
  /\ UNCHANGED <<searchResult, context, sources, completion, imgModel,
                 clientVars, storeVars>>
  /\ UNCHANGED <<historyVars, scoreVars, viewVars, legacyVars>>

\* the handler calling the search again after it threw
SearchNextRetrying(outcome) == IF outcome.kind = "throw" THEN "search" ELSE "completion"

\* the call issued after the search step: catch (searchErr) only logs, and the
\* handler goes on to the completion whatever the search did
SearchNext(outcome) == "completion"

\* the search returns or throws; context and sources; the completion call is issued
HandlerSearchReturn ==
  /\ hpc = "search"
  /\ \E outcome \in SearchOutcomes :
       /\ searchResult' = outcome
       /\ context' = AfterSearch(request.variant, outcome).context
       /\ sources' = AfterSearch(request.variant, outcome).sources
       /\ hpc' = SearchNext(outcome)
       /\ hcalls' = [hcalls EXCEPT ![SearchNext(outcome)] = @ + 1]
  /\ UNCHANGED <<request, completion, imgModel, response, clientVars, storeVars>>
  /\ UNCHANGED <<historyVars, scoreVars, viewVars, legacyVars>>

\* the handler with the completion call in a try block of its own
HandlerCompletionFailsLax(r) == ParseThrows(r) \/ ParsedNull(r)

\* the handler rejecting a reply without content
HandlerCompletionFailsStrict(r) == r.kind # "object"

\* does the completion outcome take the handler to its outer catch block?
HandlerCompletionFails(r) ==
  r.kind = "throw" \/ ParseThrows(r) \/ ParsedNull(r)

\* the completion returns or throws; JSON.parse; reconciliation; the image call
HandlerCompletionReturn ==
  /\ hpc = "completion"
  /\ \E r \in Replies :
       /\ completion' = r
       /\ IF HandlerCompletionFails(r)
          THEN /\ Respond(ErrorResponse)
               /\ UNCHANGED hcalls
          ELSE IF request.geminiKey
          THEN /\ hpc' = "image"
               /\ hcalls' = [hcalls EXCEPT !.image = @ + 1]
               /\ UNCHANGED response
          ELSE /\ Respond(OkResponse(request.variant, sources, r,
                                     PlaceholderUrl(r.title)))
               /\ UNCHANGED hcalls
  /\ UNCHANGED <<request, searchResult, context, sources, imgModel,
                 clientVars, storeVars>>
  /\ UNCHANGED <<historyVars, scoreVars, viewVars, legacyVars>>

\* the image call returns or throws; the response
HandlerImageReturn ==
  /\ hpc = "image"
  /\ \E outcome \in ImageOutcomes :
       /\ imgModel' = outcome
       /\ Respond(OkResponse(request.variant, sources, completion,
                             HandlerImageUrl(completion.title, outcome)))
  /\ UNCHANGED <<request, searchResult, context, sources, completion, hcalls,
                 clientVars, storeVars>>
  /\ UNCHANGED <<historyVars, scoreVars, viewVars, legacyVars>>

\* the invocation is over; the function is stateless between requests
HandlerReset ==
  /\ hpc = "done"
  /\ hpc' = "idle"
  /\ request' = NoRequest
  /\ searchResult' = NoSearch
  /\ context' = EmptyContext
  /\ sources' = <<>>
  /\ completion' = NoCompletion
  /\ imgModel' = "none"
  /\ response' = NoResponse
  /\ hcalls' = NoHandlerCalls
  /\ UNCHANGED <<clientVars, storeVars>>
  /\ UNCHANGED <<historyVars, scoreVars, viewVars, legacyVars>>

NextHandler ==
  \/ HandlerReceive
  \/ HandlerSearchReturn
  \/ HandlerCompletionReturn
  \/ HandlerImageReturn
  \/ HandlerReset

\* the handler alone, the client not yet mounted by anyone who generates
InitHandler == Init /\ dbUsage["A", 0] = NoRow

SpecHandler == InitHandler /\ [][NextHandler]_vars

(* ---------------------------------------------------------------------- *)
(* One request at a time: to the generate handler, or from one session    *)
(* ---------------------------------------------------------------------- *)

\* no session has done anything since the app was mounted
ClientUntouched ==
  \A s \in Sessions :
    invoked[s] = 0 /\ fetchUsagePending[s] /\ fetchHistoryPending[s]

\* no request is with the handler
HandlerUntouched == hpc = "idle"

\* the handler and the client pipeline are separate programs without shared
\* state: a request is followed in the one or in the other
NextRequest ==
  \/ ClientUntouched /\ NextHandler
  \/ HandlerUntouched /\ NextHistory

SpecRequest == Init /\ [][NextRequest]_vars

(* ---------------------------------------------------------------------- *)
(* Reliability lookup and source enrichment                               *)
(* ---------------------------------------------------------------------- *)

\* getReliabilityScore(sourceName) is called and returns
LookupScore ==
  /\ score = NoScore
  /\ score' = getReliabilityScore(sourceName)
  /\ UNCHANGED <<sourceName, dataSources, enrichedSources, clientVars, storeVars,
                 handlerVars, historyVars, viewVars, legacyVars>>

\* handleGenerate maps data.sources to enrichedSources, or throws to its catch block
EnrichDataSources ==
  /\ enrichedSources = NoEnriched
  /\ enrichedSources' = EnrichSources(dataSources)
  /\ UNCHANGED <<sourceName, score, dataSources, clientVars, storeVars,
                 handlerVars, historyVars, viewVars, legacyVars>>

NextScore ==
  \/ LookupScore
  \/ EnrichDataSources

\* a source name and a reply's data.sources, before either is looked at
InitScore ==
  /\ InitApp
  /\ dbUsage["A", 0] = NoRow
  /\ sourceName \in SourceNames
  /\ score = NoScore
  /\ dataSources \in DataSourceLists
  /\ enrichedSources = NoEnriched

SpecScore == InitScore /\ [][NextScore]_vars

(* ---------------------------------------------------------------------- *)
(* One session with its progress bar: handleGenerate and its interval     *)
(* ---------------------------------------------------------------------- *)

\* Math.floor(Math.random() * 10) + 1
TickSteps == 1..10

\* the interval callback: setProgress(prev => prev >= 95 ? prev : prev + step)
Tick(s) ==
  /\ timer[s]
  /\ \E step \in TickSteps :
       progress' = [progress EXCEPT ![s] = IF @ >= 95 THEN @ ELSE @ + step]
  /\ UNCHANGED <<clientVars, storeVars, handlerVars, historyVars, scoreVars, timer,
                 deleting, legacyVars>>

NextProgress ==
  \/ \E s \in HistorySessions : Tick(s)
  \/ \E s \in HistorySessions : HandleGenerate(s)
  \/ \E s \in HistorySessions : CompletionReturn(s)
  \/ \E s \in HistorySessions : ImageReturn(s)
  \/ \E s \in HistorySessions : InsertReturn(s)
  \/ \E s \in HistorySessions : UpsertReturn(s)

SpecProgress == Init /\ [][NextProgress]_vars

\* every external call handleGenerate awaits returns or fails
CallsReturn ==
  \A s \in HistorySessions :
    /\ WF_vars(CompletionReturn(s))
    /\ WF_vars(ImageReturn(s))
    /\ WF_vars(InsertReturn(s))
    /\ WF_vars(UpsertReturn(s))

\* the session's mount fetch of the count and its generations
NextLive ==
  \/ \E s \in HistorySessions : FetchUsageReturn(s)
  \/ \E s \in HistorySessions : HandleGenerate(s)
  \/ \E s \in HistorySessions : CompletionReturn(s)
  \/ \E s \in HistorySessions : ImageReturn(s)
  \/ \E s \in HistorySessions : InsertReturn(s)
  \/ \E s \in HistorySessions : UpsertReturn(s)

SpecLive == Init /\ [][NextLive]_vars /\ CallsReturn

(* ---------------------------------------------------------------------- *)
(* One session with its history view: select an item, deleteHistory       *)
(* ---------------------------------------------------------------------- *)

\* a delete that leaves out .eq('id', id): every row of the user goes
HistoryDeleteAllOwn(rows, id, user, uid) ==
  LET keep(row) == ~(row.user_id = user /\ row.user_id = uid)
  IN SelectSeq(rows, keep)

\* .delete().eq('id', id).eq('user_id', user) under the policy
\* "Users can delete own history": USING (auth.uid() = user_id)
HistoryDelete(rows, id, user, uid) ==
  LET keep(row) == ~(row.id = id /\ row.user_id = user /\ row.user_id = uid)
  IN SelectSeq(rows, keep)

\* prev.filter(item => item.id !== id)
WithoutItem(items, id) ==
  LET other(item) == item.id # id
  IN SelectSeq(items, other)

\* onClick of a history item: setSelectedHistoryItem(item)
SelectItem(s) ==
  /\ \E i \in 1..Len(history[s]) :
       selectedHistoryItem' = [selectedHistoryItem EXCEPT ![s] = history[s][i]]
  /\ UNCHANGED <<pc, usageCount, loading, result, history, alertShown, invoked,
                 closureUsage, reply, newRecord, upsertReq, fetchUsagePending, calls,
                 storeVars, handlerVars, historyVars, scoreVars, viewVars, legacyVars>>

\* onClick of the delete button of an item: deleteHistory(item.id) is called with
\* the selectedHistoryItem of the current render in its closure, and awaits
DeleteHistory(s) ==
  /\ ~deleting[s].active
  /\ \E i \in 1..Len(history[s]) :
       deleting' = [deleting EXCEPT ![s] =
                      [active |-> TRUE, id |-> history[s][i].id,
                       selectedHistoryItem |-> selectedHistoryItem[s],
                       outcome |-> "none"]]
  /\ UNCHANGED <<clientVars, storeVars, handlerVars, historyVars, scoreVars,
                 progress, timer, legacyVars>>

\* getSession and the delete return: without a session or on an error nothing
\* is set; otherwise the row is gone and the item is filtered out of the list
DeleteReturn(s) ==
  /\ deleting[s].active
  /\ \E outcome \in {"nosession", "error", "ok"} :
       /\ deleting' = [deleting EXCEPT ![s] =
                         [NoDelete EXCEPT !.outcome = outcome]]
       /\ IF outcome = "ok"
          THEN /\ dbHistory' = HistoryDelete(dbHistory, deleting[s].id,
                                             SessionUser(s), SessionUser(s))
               /\ history' = [history EXCEPT ![s] = WithoutItem(@, deleting[s].id)]
               /\ selectedHistoryItem' =
                    IF deleting[s].selectedHistoryItem.id = deleting[s].id
                    THEN [selectedHistoryItem EXCEPT ![s] = NullRecord]
                    ELSE selectedHistoryItem
          ELSE UNCHANGED <<dbHistory, history, selectedHistoryItem>>
  /\ UNCHANGED <<pc, usageCount, loading, result, alertShown, invoked, closureUsage,
                 reply, newRecord, upsertReq, fetchUsagePending, calls, today, dbUsage,
                 generated, completed, handlerVars, historyVars, scoreVars, progress,
                 timer, legacyVars>>

NextDelete ==
  \/ \E s \in HistorySessions : FetchHistoryReturn(s)
  \/ \E s \in HistorySessions : HandleGenerate(s)
  \/ \E s \in HistorySessions : CompletionReturn(s)
  \/ \E s \in HistorySessions : ImageReturn(s)
  \/ \E s \in HistorySessions : InsertReturn(s)
  \/ \E s \in HistorySessions : UpsertReturn(s)
  \/ \E s \in HistorySessions : DeleteHistory(s)
  \/ \E s \in HistorySessions : DeleteReturn(s)

\* the user has no usage row for today yet
InitDelete == Init /\ dbUsage["A", 0] = NoRow

SpecDelete == InitDelete /\ [][NextDelete]_vars

\* the same session with the user also selecting items of the list
NextView ==
  \/ NextDelete
  \/ \E s \in HistorySessions : SelectItem(s)

SpecView == InitDelete /\ [][NextView]_vars

(* ---------------------------------------------------------------------- *)
(* The sqlite server: /api/usage and /api/history                         *)
(* ---------------------------------------------------------------------- *)

\* ids a caller can post or ask to delete
PostIds == 1..MaxPosts

\* a row of the sqlite history table; the table has no user column:
\* postedBy records the caller whose POST created the row
PostedRow(id, caller) == [id |-> id, postedBy |-> caller]

\* GET /api/usage: today's row is created with count 0 if absent, and returned
ApiGetUsage(caller) ==
  /\ sqlUsage' = CountOf(sqlUsage)
  /\ apiReply' = [NoApiReply EXCEPT !.to = caller, !.kind = "usage",
                                    !.count = CountOf(sqlUsage)]
  /\ UNCHANGED <<clientVars, storeVars, handlerVars, historyVars, scoreVars, viewVars,
                 sqlHistory>>

\* GET /api/history: SELECT * FROM history ORDER BY timestamp DESC
ApiGetHistory(caller) ==
  /\ apiReply' = [NoApiReply EXCEPT !.to = caller, !.kind = "history",
                                    !.rows = Reverse(sqlHistory)]
  /\ UNCHANGED <<clientVars, storeVars, handlerVars, historyVars, scoreVars, viewVars,
                 sqlHistory, sqlUsage>>

\* POST /api/history: the insert (id is the primary key), then today's count + 1
ApiPostHistory(caller) ==
  /\ CountOf(sqlUsage) < MaxPosts
  /\ \E id \in PostIds :
       IF id \in RowIds(sqlHistory)
       THEN /\ apiReply' = [NoApiReply EXCEPT !.to = caller, !.kind = "error"]
            /\ UNCHANGED <<sqlHistory, sqlUsage>>
       ELSE /\ sqlHistory' = Append(sqlHistory, PostedRow(id, caller))
            /\ sqlUsage' = CountOf(sqlUsage) + 1
            /\ apiReply' = [NoApiReply EXCEPT !.to = caller, !.kind = "success"]
  /\ UNCHANGED <<clientVars, storeVars, handlerVars, historyVars, scoreVars, viewVars>>

\* DELETE /api/history/:id: DELETE FROM history WHERE id = ?
ApiDeleteHistory(caller) ==
  /\ \E id \in PostIds :
       LET other(row) == row.id # id
       IN sqlHistory' = SelectSeq(sqlHistory, other)
  /\ apiReply' = [NoApiReply EXCEPT !.to = caller, !.kind = "success"]
  /\ UNCHANGED <<clientVars, storeVars, handlerVars, historyVars, scoreVars, viewVars,
                 sqlUsage>>

NextLegacy ==
  \/ \E caller \in Users : ApiGetUsage(caller)
  \/ \E caller \in Users : ApiGetHistory(caller)
  \/ \E caller \in Users : ApiPostHistory(caller)
  \/ \E caller \in Users : ApiDeleteHistory(caller)

SpecLegacy == InitDelete /\ [][NextLegacy]_vars

(* ---------------------------------------------------------------------- *)
(* Properties of the client pipeline (Spec)                               *)
(* ---------------------------------------------------------------------- *)

\* C1: a handleGenerate invocation that finds usageCount >= DAILY_LIMIT shows the
\* quota alert and returns: no call is issued (no completion, image, insert or
\* upsert), and loading, result, history, the usage count and the tables are as
\* they were.
C1_QuotaRejects ==
  [][\A s \in Sessions :
       (invoked'[s] = invoked[s] + 1 /\ usageCount[s] >= DAILY_LIMIT) =>
          /\ alertShown'[s] = QuotaAlert
          /\ pc'[s] = "idle"
          /\ calls'[s] = NoCalls
          /\ loading'[s] = loading[s]
          /\ result'[s] = result[s]
          /\ history'[s] = history[s]
          /\ usageCount'[s] = usageCount[s]
          /\ dbHistory' = dbHistory
          /\ dbUsage' = dbUsage]_vars

C1_Witness ==
  \E s \in Sessions :
    /\ invoked[s] > 0
    /\ alertShown[s] = QuotaAlert
    /\ usageCount[s] >= DAILY_LIMIT
    /\ ~loading[s]

\* C2: the persisted usage count of (user, day) is the number of successful
\* generations of that user on that day: each one adds exactly 1, in every
\* interleaving of the sessions' reads and writes of the count.
C2_NoLostUpdate ==
  \A u \in Users, d \in Days : CountOf(dbUsage[u, d]) = completed[u, d]

\* C3: no user gets more than DAILY_LIMIT generations persisted to the history
\* table on one calendar day.
C3_DailyCeiling ==
  \A u \in Users, d \in Days : generated[u, d] <= DAILY_LIMIT

\* a generate attempt of session s ends in this step without a persisted record:
\* rejected by the quota check, failed at the completion, skipped for want of a
\* session, or refused by the history table
EndsUnpersisted(s) ==
  \/ invoked'[s] # invoked[s] /\ pc'[s] = "idle"
  \/ pc[s] \in {"completion", "image"} /\ pc'[s] = "idle"
  \/ pc[s] = "insert" /\ pc'[s] = "idle" /\ dbHistory' = dbHistory

\* C4 (the usage count of (user, today) is the count of the persisted usage row;
\* the client's usageCount state is a separate matter): the usage row of (user,
\* today) changes only in the upsert step of an
\* invocation whose record is in the history table; a step that ends an attempt
\* without a persisted record leaves every usage row as it is.
C4_UsageOnlyAfterPersist ==
  [][/\ \A u \in Users, d \in Days :
          dbUsage'[u, d] # dbUsage[u, d] =>
            \E s \in Sessions :
              /\ SessionUser(s) = u
              /\ pc[s] = "upsert"
              /\ \E i \in 1..Len(dbHistory) :
                   dbHistory[i].id = newRecord[s].id /\ dbHistory[i].user_id = u
     /\ \A s \in Sessions : EndsUnpersisted(s) => dbUsage' = dbUsage]_vars

C4_Witness ==
  \E s \in Sessions :
    /\ pc[s] = "idle"
    /\ Len(history[s]) > 0
    /\ history[s][1].id \notin RowIds(dbHistory)
    /\ dbUsage[SessionUser(s), today] = DAILY_LIMIT - 1

\* the attempt of session s ended in the catch block and persisted nothing
FailedCleanly(s) ==
  /\ pc[s] = "idle"
  /\ ~loading[s]
  /\ alertShown[s] = FailAlert
  /\ calls[s] = NoCalls
  /\ RandomId(s, invoked[s]) \notin RowIds(dbHistory)
  /\ \A i \in 1..Len(history[s]) : history[s][i].id # RandomId(s, invoked[s])

C8_ImageOrPlaceholder ==
  \A s \in Sessions :
    result[s] # NullRecord =>
      result[s].imageUrl \in {DataUrl, PlaceholderUrl(result[s].title)}

(* ---------------------------------------------------------------------- *)
(* Properties of the generate handler (SpecHandler)                       *)
(* ---------------------------------------------------------------------- *)

\* C6: when the search gave results and they were mapped to sources, and the
\* completion call throws, the response is a 500 carrying only an error message,
\* and no image call was issued.
C6_CompletionThrowFails ==
  (/\ hpc = "done"
   /\ searchResult.kind = "results"
   /\ Len(sources) = Len(searchResult.results)
   /\ completion.kind = "throw")
  => /\ response.statusCode = 500
     /\ response.keys = {"error"}
     /\ response.keys \cap {"title", "excerpt", "content", "sources", "imageUrl"} = {}
     /\ hcalls.image = 0
     /\ imgModel = "none"

C6_Witness ==
  /\ hpc = "done"
  /\ Len(sources) > 0
  /\ completion.kind = "throw"
  /\ response.statusCode = 500

\* the search step failed: the call threw, the reply had no results array, or a
\* result could not be mapped to a source
SearchFailed ==
  \/ searchResult.kind \in {"throw", "malformed"}
  \/ /\ searchResult.kind = "results"
     /\ request.variant = "netlify"
     /\ \E i \in 1..Len(searchResult.results) : searchResult.results[i] = BadUrl

\* a reply the handler can build a record from: no content at all, or an object
ReplyUsable(r) == r.kind \in {"nocontent", "object"}

\* C7: after a failed search the handler goes on to the completion with empty
\* context and no sources, and the request succeeds exactly if the completion
\* does.
C7_SearchBestEffort ==
  /\ (hpc \in {"completion", "image", "done"} /\ SearchFailed) =>
        context = EmptyContext /\ sources = <<>>
  /\ (hpc = "done" /\ SearchFailed) =>
        (response.statusCode = 200 <=> ReplyUsable(completion))

\* a well-formed generate request whose completion credentials are configured
Answered == hpc = "done" /\ request.method = "POST" /\ request.prompt # Undefined
            /\ request.groqKey

\* the request has produced a record: image and sources are each what their own
\* step gave
RecordProduced ==
  /\ response.statusCode = 200
  /\ {"sources", "imageUrl"} \subseteq response.keys
  /\ response.imageUrl = IF imgModel = "data" THEN DataUrl
                         ELSE PlaceholderUrl(completion.title)
  /\ Len(response.sources) <= Len(sources) + 1

CitedIds(r) == IF r.relevantSourceIds.kind = "array" THEN r.relevantSourceIds.ids ELSE {}

\* C10: the sources of a record are the search results the reply cites, in
\* search order, or the first search result alone when it cites none of them.
C10_SourceReconciliation ==
  (hpc = "done" /\ request.variant = "netlify" /\ response.statusCode = 200) =>
     LET cited(src) == src.id \in CitedIds(completion)
         relevant == SelectSeq(sources, cited)
     IN /\ response.sources = IF relevant = <<>> /\ sources # <<>>
                              THEN <<sources[1]>> ELSE relevant
        /\ sources # <<>> => response.sources # <<>>

\* C11: the sources of a record are search results the reply cites, or the first
\* search result alone; they are all the search results only when the reply
\* cites every one of them. This for every reply, relevantSourceIds absent or
\* not an array included.
C11_OnlyRelevantSources ==
  (hpc = "done" /\ response.statusCode = 200 /\ sources # <<>>) =>
     /\ \/ response.sources = <<sources[1]>>
        \/ \A i \in 1..Len(response.sources) :
             response.sources[i].id \in CitedIds(completion)
     /\ (response.sources = sources /\ Len(sources) > 1) =>
          \A i \in 1..Len(sources) : sources[i].id \in CitedIds(completion)

\* C12: when the search returns no results and the completion succeeds, the
\* request succeeds and the sources of the record are the empty sequence,
\* whatever the reply holds, a sources field included.
C12_NoResultsNoSources ==
  (/\ hpc = "done"
   /\ searchResult.kind = "results"
   /\ searchResult.results = <<>>
   /\ ReplyUsable(completion))
  => /\ response.statusCode = 200
     /\ response.sources = <<>>

\* manualInput ? `Generate a ... post about: ${manualInput}. ...` : `Find the latest news ...`
HasGuidance(prompt) == prompt \in {GuidedPrompt, GuidedLatestPrompt}

\* C13: a request whose prompt was built from free-text guidance never gets a
\* search call, whatever the guidance says.
C13_GuidanceSkipsSearch ==
  (request.method = "POST" /\ HasGuidance(request.prompt)) =>
     /\ hpc # "search"
     /\ hcalls.search = 0
     /\ searchResult = NoSearch

(* ---------------------------------------------------------------------- *)
(* Properties of the reliability lookup (SpecScore)                       *)
(* ---------------------------------------------------------------------- *)

\* the outlets whose name the source name contains, case-insensitively
OutletsIn(name) ==
  {i \in 1..Len(RELIABILITY_SCORES) :
     Includes(ToLowerCase(name), ToLowerCase(RELIABILITY_SCORES[i].name))}

\* C14: the score of a source name that contains an outlet's name is that
\* outlet's table score, and the score of every other source name (the empty
\* name and fragments of outlet names included) is the default 70.
C14_KnownOrDefault ==
  score # NoScore =>
     IF OutletsIn(sourceName) = {} THEN score = 70
     ELSE score \in {RELIABILITY_SCORES[i].score : i \in OutletsIn(sourceName)}

\* C15: the score of a source name that contains more than one outlet name is
\* the score of the longest of them.
C15_LongestMatch ==
  (score # NoScore /\ Cardinality(OutletsIn(sourceName)) > 1) =>
     \E i \in OutletsIn(sourceName) :
        /\ \A j \in OutletsIn(sourceName) :
             Len(RELIABILITY_SCORES[j].name) <= Len(RELIABILITY_SCORES[i].name)
        /\ score = RELIABILITY_SCORES[i].score

\* C16: mapping the sources of a reply never throws, and every source of the
\* record gets a reliabilityScore in 0..100, for every reply, entries without a
\* name included.
C16_ScoresAttached ==
  enrichedSources # NoEnriched =>
     /\ enrichedSources.kind = "ok"
     /\ \A i \in 1..Len(enrichedSources.sources) :
          enrichedSources.sources[i].reliabilityScore \in 0..100

(* ---------------------------------------------------------------------- *)
(* Properties of one session's history list (SpecHistory)                 *)
(* ---------------------------------------------------------------------- *)

\* the records handleGenerate can hand to saveToHistory
WrittenRecords ==
  [id : {RandomId(s, n) : s \in Sessions, n \in 1..MaxInvocations},
   title : {ClientParse(text).title : text \in ClientTexts \ {"not json", "null"}},
   imageUrl : {ClientImageUrl(outcome) : outcome \in ImageOutcomes}]

\* C17: when fetchHistory loads the list, every record whose row is in the
\* history table is in the list with the id, title and imageUrl it was written
\* with, a missing title and an empty image URL included.
C17_RoundTrip ==
  [][\A s \in HistorySessions :
       (fetchHistoryPending[s] /\ ~fetchHistoryPending'[s] /\ history'[s] # history[s]) =>
          \A record \in WrittenRecords :
             (\E i \in 1..Len(dbHistory) :
                 dbHistory[i] = InsertRow(record, SessionUser(s)))
             => \E i \in 1..Len(history'[s]) : history'[s][i] = record]_vars

(* ---------------------------------------------------------------------- *)
(* Properties of one request (SpecRequest)                                *)
(* ---------------------------------------------------------------------- *)

\* C18: within one request the search, the completion, the image call, the
\* history insert and the usage upsert are each issued at most once, whatever
\* they return.
C18_NoRetries ==
  /\ hcalls.search <= 1 /\ hcalls.completion <= 1 /\ hcalls.image <= 1
  /\ \A s \in Sessions :
       /\ calls[s].llm <= 1 /\ calls[s].image <= 1
       /\ calls[s].insert <= 1 /\ calls[s].upsert <= 1

C18_Witness ==
  /\ hpc = "done"
  /\ searchResult.kind = "throw"
  /\ completion.kind = "throw"
  /\ hcalls.search = 1
  /\ hcalls.completion = 1

\* calls of the handler that were issued and have not returned
SearchInFlight == hcalls.search > 0 /\ searchResult = NoSearch
CompletionInFlight == hcalls.completion > 0 /\ completion = NoCompletion
ImageInFlight == hcalls.image > 0 /\ imgModel = "none"

\* C19: the completion call is issued only when the search has returned or was
\* skipped, the image call only when the completion has given a usable reply,
\* the insert only after the image step and the upsert only after the insert;
\* no two calls of a request are in flight together.
C19_StrictOrder ==
  /\ hcalls.completion > 0 => ~SearchInFlight
  /\ hcalls.image > 0 => ReplyUsable(completion)
  /\ ~(SearchInFlight /\ CompletionInFlight)
  /\ ~(CompletionInFlight /\ ImageInFlight)
  /\ ~(SearchInFlight /\ ImageInFlight)
  /\ \A s \in Sessions :
       /\ calls[s].image > 0 =>
            reply[s] \in {Undefined, "{}", "{title,excerpt,content,sources}"}
       /\ calls[s].insert > 0 => calls[s].image > 0 /\ pc[s] \in {"insert", "upsert"}
       /\ calls[s].upsert > 0 => calls[s].insert > 0 /\ pc[s] = "upsert"
       /\ pc[s] = "completion" => calls[s] = [NoCalls EXCEPT !.llm = 1]

C19_Witness ==
  /\ hpc = "done"
  /\ hcalls = [search |-> 1, completion |-> 1, image |-> 1]
  /\ searchResult.kind = "results"
  /\ imgModel = "data"
  /\ response.statusCode = 200

\* the step ends a generate of session s whose record did not reach the history
\* table, or whose usage upsert was not applied
PersistenceFailed(s) ==
  /\ pc[s] \in {"image", "insert", "upsert"}
  /\ pc'[s] = "idle"
  /\ \/ RandomId(s, invoked[s]) \notin RowIds(dbHistory')
     \/ pc[s] = "upsert" /\ dbUsage' = dbUsage

\* C20: a generate whose insert or upsert failed or was skipped still sets its
\* record as the result, prepends it to the local history and shows no alert.
C20_NoRollback ==
  [][\A s \in HistorySessions :
       PersistenceFailed(s) =>
          /\ history'[s] # <<>>
          /\ Tail(history'[s]) = history[s]
          /\ Head(history'[s]).id = RandomId(s, invoked[s])
          /\ result'[s] = Head(history'[s])
          /\ alertShown'[s] = NoAlert
          /\ ~loading'[s]]_vars

C20_Witness ==
  \E s \in HistorySessions :
    /\ pc[s] = "idle"
    /\ history[s] # <<>>
    /\ Head(history[s]).id \notin RowIds(dbHistory)
    /\ result[s] = Head(history[s])
    /\ alertShown[s] = NoAlert
    /\ ~loading[s]

(* ---------------------------------------------------------------------- *)
(* Further properties of the generate handler (SpecHandler)               *)
(* ---------------------------------------------------------------------- *)

\* C26: a request that is not a POST is answered 405, and a POST without the
\* completion key or without the search key is answered 500; in both cases no
\* search, completion or image call is issued, whatever the prompt.
C26_RejectsBeforeAnyCall ==
  /\ (request # NoRequest /\ request.method # "POST") =>
        /\ hpc = "done"
        /\ response.statusCode = 405
        /\ hcalls = NoHandlerCalls
  /\ (request.method = "POST" /\ (~request.groqKey \/ ~request.tavilyKey)) =>
        /\ hpc = "done"
        /\ response.statusCode = 500
        /\ hcalls = NoHandlerCalls

C26_Witness ==
  /\ hpc = "done"
  /\ request.method = "POST"
  /\ request.prompt = GuidedPrompt
  /\ request.groqKey
  /\ ~request.tavilyKey
  /\ response.statusCode = 500
  /\ hcalls = NoHandlerCalls

\* the response of one variant of the handler to a POST, as a function of the
\* request and of what the search, the completion and the image call give
RunHandler(variant, req, search, r, img) ==
  IF KeysMissing(req) \/ req.prompt = Undefined THEN ErrorResponse
  ELSE LET srcs == IF MentionsLatestNews(req.prompt)
                   THEN AfterSearch(variant, search).sources ELSE <<>>
       IN IF HandlerCompletionFails(r) THEN ErrorResponse
          ELSE OkResponse(variant, srcs, r,
                          IF req.geminiKey THEN HandlerImageUrl(r.title, img)
                          ELSE PlaceholderUrl(r.title))

\* C27: for the same request, search outcome, reply and image outcome, the
\* function of generate.ts and the proxy of server.ts give the same status,
\* title, sources and imageUrl.
C27_VariantsAgree ==
  (hpc = "done" /\ request.method = "POST") =>
     /\ response = RunHandler(request.variant, request, searchResult, completion, imgModel)
     /\ RunHandler("netlify", request, searchResult, completion, imgModel)
          = RunHandler("server", request, searchResult, completion, imgModel)

\* C23: a reply the completion call returned never makes the request fail,
\* whether it parses or not and whatever fields it lacks.
C23_DefensiveParse ==
  (hpc = "done" /\ completion.kind \in {"nocontent", "garbage", "null", "object"}) =>
     /\ response.statusCode = 200
     /\ {"sources", "imageUrl"} \subseteq response.keys

(* ---------------------------------------------------------------------- *)
(* The client's copy of the store (SpecHistory)                           *)
(* ---------------------------------------------------------------------- *)

\* no operation of the session is under way
Settled(s) ==
  /\ pc[s] = "idle"
  /\ ~fetchUsagePending[s]
  /\ ~fetchHistoryPending[s]

\* C24: once the mount fetches and any generation of a session have completed,
\* its usageCount equals the count of the usage row of (user, today), an absent
\* row counting as 0.
C24_UsageCountInSync ==
  \A s \in HistorySessions :
    Settled(s) => usageCount[s] = CountOf(dbUsage[SessionUser(s), today])

\* the position of the row with this id in the history table, 0 if there is none
RowIndex(id) ==
  IF id \in RowIds(dbHistory)
  THEN CHOOSE i \in 1..Len(dbHistory) : dbHistory[i].id = id
  ELSE 0

\* C30: the history list of a session never holds two items with the same id,
\* and of two listed items that are both stored the later created comes first.
C30_NewestFirstNoDuplicates ==
  \A s \in HistorySessions :
    \A i, j \in 1..Len(history[s]) :
      i < j =>
        /\ history[s][i].id # history[s][j].id
        /\ (RowIndex(history[s][i].id) > 0 /\ RowIndex(history[s][j].id) > 0)
             => RowIndex(history[s][i].id) > RowIndex(history[s][j].id)

(* ---------------------------------------------------------------------- *)
(* The progress bar and the end of a generation (SpecProgress, SpecLive)  *)
(* ---------------------------------------------------------------------- *)

\* C29: progress is always within 0..100, and it is 100 only when the last
\* generation of the session has succeeded.
C29_ProgressInRange ==
  \A s \in HistorySessions :
    /\ progress[s] >= 0
    /\ progress[s] <= 100
    /\ progress[s] = 100 => (~loading[s] /\ result[s] # NullRecord)

\* C28: provided every external call returns or fails, a generation that has
\* set loading ends with loading false and its interval cleared; and while
\* loading is true the session starts no further generation.
C28_GenerationEnds ==
  /\ \A s \in HistorySessions : loading[s] ~> (~loading[s] /\ ~timer[s])
  /\ [][\A s \in HistorySessions : loading[s] => invoked'[s] = invoked[s]]_vars

C28_Witness ==
  \E s \in HistorySessions :
    /\ invoked[s] > 0
    /\ alertShown[s] = FailAlert
    /\ reply[s] = "throw"
    /\ ~loading[s]
    /\ ~timer[s]

(* ---------------------------------------------------------------------- *)
(* Deleting a history item (SpecDelete, SpecView)                         *)
(* ---------------------------------------------------------------------- *)

\* the deleteHistory call of the session returns in this step
DeleteReturns(s) == deleting[s].active /\ ~deleting'[s].active

\* C25: calling deleteHistory changes neither the list nor the selected item;
\* when it returns without a session or with an error both are unchanged; when
\* it returns successfully the list loses exactly the item with that id, keeping
\* the order of the others, and the selected item is cleared if and only if it
\* has that id.
C25_DeleteAfterAcknowledge ==
  [][\A s \in HistorySessions :
       /\ (~deleting[s].active /\ deleting'[s].active) =>
             /\ history'[s] = history[s]
             /\ selectedHistoryItem'[s] = selectedHistoryItem[s]
       /\ (DeleteReturns(s) /\ deleting'[s].outcome # "ok") =>
             /\ history'[s] = history[s]
             /\ selectedHistoryItem'[s] = selectedHistoryItem[s]
       /\ (DeleteReturns(s) /\ deleting'[s].outcome = "ok") =>
             /\ history'[s] = WithoutItem(history[s], deleting[s].id)
             /\ selectedHistoryItem'[s] =
                  IF selectedHistoryItem[s].id = deleting[s].id
                  THEN NullRecord ELSE selectedHistoryItem[s]]_vars

\* C22: a row of the history table stays in the table with the same fields at
\* every step, except the step in which a deleteHistory call of its owner for
\* its id returns successfully.
C22_RowsImmutable ==
  [][\A i \in 1..Len(dbHistory) :
       \/ \E j \in 1..Len(dbHistory') : dbHistory'[j] = dbHistory[i]
       \/ \E s \in HistorySessions :
            /\ DeleteReturns(s)
            /\ deleting'[s].outcome = "ok"
            /\ deleting[s].id = dbHistory[i].id
            /\ SessionUser(s) = dbHistory[i].user_id]_vars

C22_Witness ==
  \E s \in HistorySessions :
    /\ deleting[s].outcome = "ok"
    /\ generated[SessionUser(s), today] = 2
    /\ Len(dbHistory) = 1

(* ---------------------------------------------------------------------- *)
(* Row ownership on the sqlite server (SpecLegacy)                        *)
(* ---------------------------------------------------------------------- *)

\* the rows a user has posted
PostedBy(rows, user) ==
  LET own(row) == row.postedBy = user
  IN SelectSeq(rows, own)

\* C21: an operation of one user returns only rows of that user, and leaves the
\* rows of every other user and the daily count every other user reads as
\* they were.
C21_RowOwnership ==
  [][\A user \in Users :
       (apiReply'.to # "" /\ apiReply'.to # user) =>
          /\ PostedBy(apiReply'.rows, user) = <<>>
          /\ PostedBy(sqlHistory', user) = PostedBy(sqlHistory, user)
          /\ CountOf(sqlUsage') = CountOf(sqlUsage)]_vars

====
